---- MODULE Spec2Model ----
(***************************************************************************)
(* Aux_ComputeProfile (src/src/Auxiliary/Aux_ComputeProfile.cpp): the      *)
(* radial-profile engine of GAMER, run by MPI_NRank ranks of NT OpenMP      *)
(* threads each.                                                           *)
(*                                                                         *)
(* Numbers.  Lengths are integers in units of half the finest cell width,  *)
(* so every cell centre and every squared distance r2 is an integer.       *)
(* A "double" that stays rational is a reduced pair <<n, d>> (type Q).     *)
(* A "double" that may carry square roots (Radius[] in log mode, Data[]    *)
(* of the radial velocity) is a finite function  s |-> q  from square-free *)
(* integers to non-zero rationals, standing for  SUM q*sqrt(s)  (type R);  *)
(* the representation is canonical, so = on R is numeric equality.         *)
(* Arithmetic is exact: floating-point round-off is outside the model.     *)
(***************************************************************************)
EXTENDS Integers, Sequences, FiniteSets, TLC

(***************************************************************************)
(* Bounds of the model                                                     *)
(***************************************************************************)
\* number of MPI ranks
MPI_NRank == 2
\* number of OpenMP threads per rank (OMP_NTHREAD)
NT == 2
\* cells per patch edge
PS1 == 2

(***************************************************************************)
(* Exact arithmetic                                                        *)
(***************************************************************************)
Abs(x) == IF x < 0 THEN -x ELSE x

RECURSIVE GCD(_, _)
GCD(a, b) == IF b = 0 THEN a ELSE GCD(b, a % b)

\* n/d in lowest terms with a positive denominator, g = gcd(|n|, |d|)
QOver(n, d, g) == IF d < 0 THEN << (-n) \div g, (-d) \div g >> ELSE << n \div g, d \div g >>

QNorm(n, d) == QOver(n, d, GCD(Abs(n), Abs(d)))

QInt(k)    == << k, 1 >>
QAdd(a, b) == QNorm(a[1] * b[2] + b[1] * a[2], a[2] * b[2])
QSub(a, b) == QNorm(a[1] * b[2] - b[1] * a[2], a[2] * b[2])
QMul(a, b) == QNorm(a[1] * b[1], a[2] * b[2])
QDiv(a, b) == QNorm(a[1] * b[2], a[2] * b[1])
QLt(a, b)  == a[1] * b[2] < b[1] * a[2]
QLe(a, b)  == a[1] * b[2] <= b[1] * a[2]
SQR(a)     == QMul(a, a)

RECURSIVE QPowNat(_, _)
QPowNat(q, k) == IF k = 0 THEN QInt(1) ELSE QMul(q, QPowNat(q, k - 1))

\* pow( q, k ) for an integer exponent k
QPow(q, k) == IF k >= 0 THEN QPowNat(q, k) ELSE QDiv(QInt(1), QPowNat(q, -k))

\* ceil( q )
CeilQ(q) == -((-q[1]) \div q[2])

\* the largest k with k*k dividing n (n > 0)
SquarePart(n) ==
  LET ks == { k \in 1..n : k * k <= n /\ n % (k * k) = 0 }
  IN  CHOOSE k \in ks : \A j \in ks : j <= k

RZero == << >>

\* f itself, as an explicit table of its values (TLC otherwise keeps the
\* expression of a function and evaluates it again at every application)
Tabulate(f) == f @@ << >>

\* c * sqrt( s ), s square-free
RTerm(c, s) == IF c[1] = 0 THEN RZero ELSE (s :> c)

RFromQ(q) == RTerm(q, 1)

RCoef(x, s) == IF s \in DOMAIN x THEN x[s] ELSE QInt(0)

RAdd(x, y) ==
  LET dom  == (DOMAIN x) \cup (DOMAIN y)
      keep == { s \in dom : QAdd(RCoef(x, s), RCoef(y, s))[1] # 0 }
  IN  Tabulate([ s \in keep |-> QAdd(RCoef(x, s), RCoef(y, s)) ])

RScale(x, q) ==
  IF q[1] = 0 THEN RZero ELSE Tabulate([ s \in DOMAIN x |-> QMul(x[s], q) ])

RSub(x, y) == RAdd(x, RScale(y, QInt(-1)))

\* q * sqrt( n ) for an integer n > 0
RSqrtInt(q, n) ==
  LET k == SquarePart(n)
  IN  RTerm(QMul(q, QInt(k)), n \div (k * k))

\* q / sqrt( n ) for an integer n > 0:  1/sqrt(n) = sqrt(n)/n
RInvSqrtInt(q, n) == RSqrtInt(QDiv(q, QInt(n)), n)

\* sqrt( q ) for a rational q > 0:  sqrt(n/d) = sqrt(n*d)/d
RSqrtQ(q) == RSqrtInt(QDiv(QInt(1), QInt(q[2])), q[1] * q[2])

\* a value of the form c*sqrt(s) (or zero): its square, and its sign
RIsMono(x) == Cardinality(DOMAIN x) <= 1

RSquare(x) ==
  IF x = RZero THEN QInt(0)
  ELSE LET s == CHOOSE t \in DOMAIN x : TRUE
       IN  QMul(SQR(x[s]), QInt(s))

RSign(x) ==
  IF x = RZero THEN 0
  ELSE LET s == CHOOSE t \in DOMAIN x : TRUE
       IN  IF x[s][1] > 0 THEN 1 ELSE -1

\* x < y for two values of the form c*sqrt(s)
RLt(x, y) ==
  CASE RSign(x) < RSign(y) -> TRUE
    [] RSign(x) > RSign(y) -> FALSE
    [] RSign(x) = 0        -> FALSE
    [] RSign(x) = 1        -> QLt(RSquare(x), RSquare(y))
    [] OTHER               -> QLt(RSquare(y), RSquare(x))

\* x*x / y for two values of the form c*sqrt(s), y # 0:
\* (c1^2 s1) / (c2 sqrt(s2)) = (c1^2 s1 / (c2 s2)) * sqrt(s2)
RSqrOver(x, y) ==
  LET s2 == CHOOSE t \in DOMAIN y : TRUE
  IN  RTerm(QDiv(RSquare(x), QMul(y[s2], QInt(s2))), s2)

(***************************************************************************)
(* The AMR hierarchy and the run-time parameters (GAMER.h globals)         *)
(***************************************************************************)
TOP_LEVEL == 1
Levels    == 0..TOP_LEVEL
Ranks     == 0..(MPI_NRank - 1)
Threads   == 0..(NT - 1)

RECURSIVE Pow2(_)
Pow2(k) == IF k = 0 THEN 1 ELSE 2 * Pow2(k - 1)

\* amr->dh[lv]: the finest cell is 2 units wide, each coarser level doubles
dh(level) == Pow2(TOP_LEVEL - level + 1)

CUBE(x) == x * x * x

\* width of a level-0 patch and of a level-1 patch
PatchWidth(level) == PS1 * dh(level)

\* amr->BoxSize: two level-0 patches along x, one along y and z
BoxSize == << 2 * PatchWidth(0), PatchWidth(0), PatchWidth(0) >>

\* field indices of fluid[][][][] and the quantity codes of TVar
DENS == 0
MOMX == 1
MOMY == 2
MOMZ == 3
ENGY == 4
VRAD == 5
PRESSURE == 6
INTERNAL_ENGY == 7
\* a code outside the set the switch statements know (e.g. the potential)
POTE == 8

BC_FLU_PERIODIC == 1
BC_FLU_OUTFLOW  == 2

\* The patches of the domain: level-0 patch 0 is refined into its eight
\* level-1 sons (ids 2..9), level-0 patch 1 is a leaf.
PatchA == [ id |-> 0, lv |-> 0, EdgeL |-> << 0, 0, 0 >>, son |-> 0 ]
PatchB == [ id |-> 1, lv |-> 0, EdgeL |-> << PatchWidth(0), 0, 0 >>, son |-> -1 ]
SonOfA(s) ==
  [ id |-> 2 + s, lv |-> 1,
    EdgeL |-> << (s % 2) * PatchWidth(1), ((s \div 2) % 2) * PatchWidth(1),
                 (s \div 4) * PatchWidth(1) >>,
    son |-> -1 ]
AllPatches == << PatchA, PatchB >> \o [ s \in 1..8 |-> SonOfA(s - 1) ]

\* domain decompositions: which rank owns patch id
PartitionKinds == { "pairs", "blocks" }
OwnerOf(kind, id) ==
  IF kind = "pairs" THEN (id \div 2) % MPI_NRank
  ELSE IF id < 5 THEN 0 ELSE MPI_NRank - 1

\* amr->patch[0][lv][0 .. NPatchComma[lv][1]-1] of one rank, in PID order
LocalPatches(kind, rank, level) ==
  SelectSeq(AllPatches, LAMBDA P : P.lv = level /\ OwnerOf(kind, P.id) = rank)

\* amr->patch[FluSg][lv][PID]->fluid[v][k][j][i] for the two test fields:
\* "rho0"   uniform density Rho0, other fields varying
\* "vacuum" zero density (but non-zero momentum) on level 0
FieldKinds == { "rho0", "vacuum" }
Rho0 == 2
fluid(field, v, P, k, j, i) ==
  CASE v = DENS -> ( IF field = "rho0" THEN Rho0
                     ELSE IF P.lv = 0 THEN 0 ELSE 1 + ((i + j + k) % 2) )
    [] v = MOMX -> 1 + ((i + P.id) % 2)
    [] v = MOMY -> j - 1
    [] v = MOMZ -> 2 - 3 * k
    [] OTHER    -> 4 + ((i + j + k + P.id) % 3)

(***************************************************************************)
(* State                                                                   *)
(***************************************************************************)
VARIABLES
  arg,         \* the arguments of the call, identical on all ranks:
               \* r_max_input, dr_min, LogBin, LogBinRatio, RemoveEmpty, TVar,
               \* SingleLv, Center
  env,         \* OPT__BC_FLU[0..5], GAMER_DEBUG (build flag), the domain
               \* decomposition and the contents of the fluid arrays
  pc,          \* pc[rank]: where the rank is in Aux_ComputeProfile
  Prof,        \* Prof[rank][p]: the Profile_t objects of the rank
  OMP_Data,    \* OMP_Data  [rank][p][TID][b]
  OMP_Weight,  \* OMP_Weight[rank][p][TID][b]
  OMP_NCell,   \* OMP_NCell [rank][p][TID][b]
  inited,      \* inited[rank]: threads that have run "initialize arrays"
  lv,          \* lv[rank]: level of the omp-for loop the team is in
  PID,         \* PID[rank]: next iteration of that loop to hand out
  reduceMsg,   \* reduceMsg[rank]: contribution to MPI_Reduce in flight
  bcastMsg,    \* what the root's MPI_Bcast calls have sent, if anything
  aborted,     \* Aux_Error has terminated the whole job
  call,        \* the arguments of a call of Mis_GetTimeStep and the globals
               \* it reads, or NoCall
  outcome      \* how that call ended: returned a value, MPI_Exit, Aux_Error

profVars == << arg, env, pc, Prof, OMP_Data, OMP_Weight, OMP_NCell, inited, lv,
              PID, reduceMsg, bcastMsg, aborted >>

stepVars == << call, outcome >>

vars == << profVars, stepVars >>

NProf == Len(arg.TVar)
Profs == 1..NProf

NoMsg == [ sent |-> FALSE ]

\* Mis_GetTimeStep has not been called / has not ended yet
NoCall == [ called |-> FALSE ]

Pending == [ kind |-> "pending" ]

\* a Profile_t before the call: no arrays
EmptyProfile ==
  [ NBin |-> -1, MaxRadius |-> RZero, Center |-> << 0, 0, 0 >>, LogBin |-> FALSE,
    LogBinRatio |-> QInt(1), Allocated |-> FALSE,
    Radius |-> << >>, Data |-> << >>, Weight |-> << >>, NCell |-> << >> ]

\* contents of freshly allocated memory that is written before it is read
Uninit == [ Data |-> RFromQ(QInt(-7)), Weight |-> QInt(-7), NCell |-> -7 ]

(***************************************************************************)
(* Parameter check (lines 78-88) and bin geometry (lines 91-127)           *)
(***************************************************************************)
\* InvalidParameter with < in place of <= : zero is accepted
InvalidParameter_ZeroAccepted ==
  \/ QLt(arg.r_max_input, QInt(0))
  \/ QLt(arg.dr_min, QInt(0))
  \/ (arg.LogBin /\ QLt(arg.LogBinRatio, QInt(1)))

InvalidParameter ==
  \/ QLe(arg.r_max_input, QInt(0))
  \/ QLe(arg.dr_min, QInt(0))
  \/ (arg.LogBin /\ QLe(arg.LogBinRatio, QInt(1)))

\* the largest k >= k0 with base^k <= q   (base > 1, base^k0 <= q)
RECURSIVE FloorLogFrom(_, _, _)
FloorLogFrom(q, base, k) ==
  IF QLe(QPow(base, k + 1), q) THEN FloorLogFrom(q, base, k + 1) ELSE k

\* IntLog with floor() in place of the conversion to int
IntLog_Floor(q, base) ==
  IF QLe(QInt(1), q) THEN FloorLogFrom(q, base, 0)
  ELSE IF QPow(base, FloorLogFrom(QDiv(QInt(1), q), base, 0)) = QDiv(QInt(1), q)
       THEN -FloorLogFrom(QDiv(QInt(1), q), base, 0)
       ELSE -FloorLogFrom(QDiv(QInt(1), q), base, 0) - 1

\* int( log(q)/log(base) ): the conversion to int truncates toward zero
IntLog(q, base) ==
  IF QLe(QInt(1), q) THEN FloorLogFrom(q, base, 0)
  ELSE -FloorLogFrom(QDiv(QInt(1), q), base, 0)

\* the largest k >= k0 with k*k <= q
RECURSIVE FloorSqrtFrom(_, _)
FloorSqrtFrom(q, k) ==
  IF QLe(QInt((k + 1) * (k + 1)), q) THEN FloorSqrtFrom(q, k + 1) ELSE k

\* The geometry is computed by well-defined double arithmetic: no division
\* by zero, no logarithm of a non-positive number.
GeometryDefined ==
  /\ QLt(QInt(0), arg.dr_min)
  /\ arg.LogBin => (QLt(QInt(1), arg.LogBinRatio) /\ QLt(QInt(0), arg.r_max_input))

GeomNBin ==
  IF arg.LogBin
  THEN IntLog(QDiv(arg.r_max_input, arg.dr_min), arg.LogBinRatio) + 2
  ELSE CeilQ(QDiv(arg.r_max_input, arg.dr_min))

GeomMaxRadius(NBin) ==
  IF arg.LogBin
  THEN QMul(arg.dr_min, QPow(arg.LogBinRatio, NBin - 1))
  ELSE QMul(arg.dr_min, QInt(NBin))

\* GeomRadius with the bin index left out of the formula
GeomRadius_NoBinIndex(b) ==
  IF arg.LogBin
  THEN RScale(RSqrtQ(arg.LogBinRatio), QMul(arg.dr_min, QPow(arg.LogBinRatio, -1)))
  ELSE RFromQ(QMul(<< 1, 2 >>, arg.dr_min))

\* pow( LogBinRatio, b-0.5 ) = LogBinRatio^(b-1) * sqrt( LogBinRatio )
GeomRadius(b) ==
  IF arg.LogBin
  THEN RScale(RSqrtQ(arg.LogBinRatio), QMul(arg.dr_min, QPow(arg.LogBinRatio, b - 1)))
  ELSE RFromQ(QMul(<< 2 * b + 1, 2 >>, arg.dr_min))

\* Prof[p] after the body of the loop over p; the arrays AllocateMemory()
\* creates hold NBin entries
GeomProfile(old) ==
  LET NBin == GeomNBin
  IN  [ NBin        |-> NBin,
        MaxRadius   |-> RFromQ(GeomMaxRadius(NBin)),
        Center      |-> arg.Center,
        LogBin      |-> arg.LogBin,
        LogBinRatio |-> IF arg.LogBin THEN arg.LogBinRatio ELSE old.LogBinRatio,
        Allocated   |-> TRUE,
        Radius      |-> [ b \in 1..NBin |-> GeomRadius(b - 1) ],
        Data        |-> [ b \in 1..NBin |-> Uninit.Data ],
        Weight      |-> [ b \in 1..NBin |-> Uninit.Weight ],
        NCell       |-> [ b \in 1..NBin |-> Uninit.NCell ] ]

\* Aux_AllocateArray3D( A, NProf, NT, Prof[0]->NBin )
AllocateArray3D(NBin, x) == [ p \in Profs |-> [ t \in Threads |-> [ b \in 1..NBin |-> x ] ] ]

(***************************************************************************)
(* Local accumulation (lines 145-316)                                      *)
(*                                                                         *)
(* What a cell contributes depends only on the arguments a of the call and *)
(* on the grid and fields e; these operators take them as parameters.      *)
(***************************************************************************)
\* Periodic with the flag of axis d read from face d
Periodic_FaceD(e, d) == e.OPT__BC_FLU[d + 1] = BC_FLU_PERIODIC

\* Periodic[d]: the flag of axis d is read from face 2*d of OPT__BC_FLU
Periodic(e, d) == e.OPT__BC_FLU[2 * d + 1] = BC_FLU_PERIODIC

\* dx, dy or dz of cell idx of patch P along axis d (0,1,2), after the
\* periodic correction; HalfBox[d] = 0.5*BoxSize[d]
Offset(a, e, P, d, idx) ==
  LET x == P.EdgeL[d + 1] + (dh(P.lv) \div 2) - a.Center[d + 1] + idx * dh(P.lv)
  IN  IF Periodic(e, d)
      THEN IF 2 * x > BoxSize[d + 1]       THEN x - BoxSize[d + 1]
           ELSE IF 2 * x < -BoxSize[d + 1] THEN x + BoxSize[d + 1]
           ELSE x
      ELSE x

\* r2 = SQR(dx) + SQR(dy) + SQR(dz)
CellR2(a, e, P, k, j, i) ==
  LET dx == Offset(a, e, P, 0, i)
      dy == Offset(a, e, P, 1, j)
      dz == Offset(a, e, P, 2, k)
  IN  dx * dx + dy * dy + dz * dz

\* the bin of a cell at squared radius r2, r = sqrt( r2 ):
\* r < dr_min  <=>  r2 < dr_min^2 ;  int( log(r/dr_min)/log(ratio) ) is the
\* largest k with (ratio^2)^k <= r2/dr_min^2 ;  int( r/dr_min ) is the
\* largest k with k^2 <= r2/dr_min^2
CellBin(a, r2) ==
  LET q2 == QDiv(QInt(r2), SQR(a.dr_min))
  IN  IF a.LogBin
      THEN IF QLt(q2, QInt(1)) THEN 0
           ELSE FloorLogFrom(q2, SQR(a.LogBinRatio), 0) + 1
      ELSE FloorSqrtFrom(q2, 0)

\* Supported with one more case in the switch
Supported_WithPotential(quant) ==
  quant \in { DENS, ENGY, MOMX, MOMY, MOMZ, VRAD, PRESSURE, INTERNAL_ENGY, POTE }

Supported(quant) ==
  quant \in { DENS, ENGY, MOMX, MOMY, MOMZ, VRAD, PRESSURE, INTERNAL_ENGY }

\* 0.5*( MomX^2 + MomY^2 + MomZ^2 ) / Dens
KineticEngy(e, P, k, j, i) ==
  LET f(v) == fluid(e.field, v, P, k, j, i)
  IN  QDiv(QInt(f(MOMX) * f(MOMX) + f(MOMY) * f(MOMY) + f(MOMZ) * f(MOMZ)),
           QInt(2 * f(DENS)))

\* GAMMA - 1 for the adiabatic index 5/3
Gamma_m1 == << 2, 3 >>

\* Hydro_GetPressure without the minimum-pressure check, no magnetic field
Hydro_GetPressure(e, P, k, j, i) ==
  QMul(Gamma_m1, QSub(QInt(fluid(e.field, ENGY, P, k, j, i)), KineticEngy(e, P, k, j, i)))

\* Contribution with the cell volume left out of the data
Contribution_NoVolume(a, e, quant, P, k, j, i) ==
  [ data   |-> RFromQ(QInt(fluid(e.field, DENS, P, k, j, i))),
    weight |-> QInt(CUBE(dh(P.lv))) ]

\* what one cell adds to OMP_Data and OMP_Weight for a supported quantity.
\* For VRAD, with Phi = atan2(dy,dx), cosTheta = dz/r, sinTheta =
\* sqrt(1-cosTheta^2): sinTheta*cosPhi = dx/r, sinTheta*sinPhi = dy/r, so
\* MomRad = ( MomX*dx + MomY*dy + MomZ*dz ) / r    (r > 0)
Contribution(a, e, quant, P, k, j, i) ==
  LET f(v) == fluid(e.field, v, P, k, j, i)
      dv   == CUBE(dh(P.lv))
      dx   == Offset(a, e, P, 0, i)
      dy   == Offset(a, e, P, 1, j)
      dz   == Offset(a, e, P, 2, k)
  IN  CASE quant \in { DENS, ENGY, MOMX, MOMY, MOMZ } ->
             [ data |-> RFromQ(QInt(f(quant) * dv)), weight |-> QInt(dv) ]
        [] quant = VRAD ->
             [ data   |-> RInvSqrtInt(QInt((f(MOMX) * dx + f(MOMY) * dy + f(MOMZ) * dz) * dv),
                                      CellR2(a, e, P, k, j, i)),
               weight |-> QInt(f(DENS) * dv) ]
        [] quant = PRESSURE ->
             [ data   |-> RFromQ(QMul(Hydro_GetPressure(e, P, k, j, i), QInt(dv))),
               weight |-> QInt(dv) ]
        [] quant = INTERNAL_ENGY ->
             [ data   |-> RFromQ(QMul(QSub(QInt(f(ENGY)), KineticEngy(e, P, k, j, i)), QInt(dv))),
               weight |-> QInt(dv) ]
        [] OTHER ->
             [ data |-> RZero, weight |-> QInt(0) ]

\* cell idx of a patch in the order of the loops: k outermost, i innermost
CellK(idx) == idx \div (PS1 * PS1)
CellJ(idx) == (idx \div PS1) % PS1
CellI(idx) == idx % PS1

\* r2, bin and the contributions to the profiles of every cell of patch P
CellsOfPatch(a, e, P) ==
  Tabulate(
  [ c \in 1..CUBE(PS1) |->
      LET k  == CellK(c - 1)
          j  == CellJ(c - 1)
          i  == CellI(c - 1)
          r2 == CellR2(a, e, P, k, j, i)
      IN  [ r2  |-> r2,
            bin |-> IF QLt(QInt(0), a.dr_min) /\ (a.LogBin => QLt(QInt(1), a.LogBinRatio))
                    THEN CellBin(a, r2) ELSE 0,
            add |-> Tabulate([ p \in 1..Len(a.TVar) |->
                                 Contribution(a, e, a.TVar[p], P, k, j, i) ]) ]
  ])

\* The slot [.][TID][.] of one thread: acc.Data[p][b], acc.Weight[p][b],
\* acc.NCell[p][b]; acc.err is set when Aux_Error is called.
\* The loop over p of one cell that falls in bin `bin`, from profile p on.
\* AccumProfiles with the cell counted in the first profile only
RECURSIVE AccumProfiles_CountFirst(_, _, _, _)
AccumProfiles_CountFirst(acc, p, bin, cell) ==
  IF p > NProf THEN acc
  ELSE IF ~Supported(arg.TVar[p]) THEN [ acc EXCEPT !.err = TRUE ]
  ELSE AccumProfiles_CountFirst(
         [ acc EXCEPT !.Data[p][bin + 1]   = RAdd(@, cell.add[p].data),
                      !.Weight[p][bin + 1] = QAdd(@, cell.add[p].weight),
                      !.NCell[p][bin + 1]  = IF p = 1 THEN @ + 1 ELSE @ ],
         p + 1, bin, cell)

RECURSIVE AccumProfiles(_, _, _, _)
AccumProfiles(acc, p, bin, cell) ==
  IF p > NProf THEN acc
  ELSE IF ~Supported(arg.TVar[p]) THEN [ acc EXCEPT !.err = TRUE ]
  ELSE AccumProfiles(
         [ acc EXCEPT !.Data[p][bin + 1]   = RAdd(@, cell.add[p].data),
                      !.Weight[p][bin + 1] = QAdd(@, cell.add[p].weight),
                      !.NCell[p][bin + 1]  = @ + 1 ],
         p + 1, bin, cell)

\* the body of the loops over k, j, i for one cell
AccumCell(acc, NBin, r_max2, cell) ==
  IF ~QLt(QInt(cell.r2), r_max2) THEN acc
  ELSE IF cell.bin >= NBin THEN acc
  ELSE IF env.GAMER_DEBUG /\ cell.bin < 0 THEN [ acc EXCEPT !.err = TRUE ]
  ELSE AccumProfiles(acc, 1, cell.bin, cell)

\* cells c, c+1, ... of the patch
RECURSIVE AccumCells(_, _, _, _, _)
AccumCells(acc, NBin, r_max2, cells, c) ==
  IF c > Len(cells) \/ acc.err THEN acc
  ELSE AccumCells(AccumCell(acc, NBin, r_max2, cells[c]), NBin, r_max2, cells, c + 1)

\* AccumPatch without line 181: the cells of a refined patch are added too
AccumPatch_NoSonTest(acc, NBin, r_max2, P, cells) == AccumCells(acc, NBin, r_max2, cells, 1)

\* one iteration of the loop over PID: patches with a son are skipped
AccumPatch(acc, NBin, r_max2, P, cells) ==
  IF P.son # -1 THEN acc ELSE AccumCells(acc, NBin, r_max2, cells, 1)

lv_min == IF arg.SingleLv < 0 THEN 0 ELSE arg.SingleLv
lv_max == IF arg.SingleLv < 0 THEN TOP_LEVEL ELSE arg.SingleLv

(***************************************************************************)
(* Thread sum, normalization, empty-bin removal (lines 319-450)            *)
(***************************************************************************)
\* OMP_x[p][0][b] + OMP_x[p][1][b] + ... + OMP_x[p][NT-1][b], in that order
RECURSIVE SumR(_, _, _, _)
SumR(A, p, b, t) == IF t = 0 THEN A[p][0][b] ELSE RAdd(SumR(A, p, b, t - 1), A[p][t][b])

\* SumQ with "=" in place of "+=": the slot of the last thread only
SumQ_Overwrite(A, p, b, t) == A[p][t][b]

RECURSIVE SumQ(_, _, _, _)
SumQ(A, p, b, t) == IF t = 0 THEN A[p][0][b] ELSE QAdd(SumQ(A, p, b, t - 1), A[p][t][b])

RECURSIVE SumN(_, _, _, _)
SumN(A, p, b, t) == IF t = 0 THEN A[p][0][b] ELSE SumN(A, p, b, t - 1) + A[p][t][b]

\* "sum over all OpenMP threads": the loops run over b < Prof[0]->NBin
ThreadSum(profs, D, W, N) ==
  [ p \in Profs |->
      [ profs[p] EXCEPT
          !.Data   = [ b \in 1..Len(@) |-> IF b <= profs[1].NBin THEN SumR(D, p, b, NT - 1) ELSE @[b] ],
          !.Weight = [ b \in 1..Len(@) |-> IF b <= profs[1].NBin THEN SumQ(W, p, b, NT - 1) ELSE @[b] ],
          !.NCell  = [ b \in 1..Len(@) |-> IF b <= profs[1].NBin THEN SumN(N, p, b, NT - 1) ELSE @[b] ] ] ]

\* the arrays a rank passes to MPI_Reduce / MPI_Bcast: Prof[p]->NBin entries each
Message(profs) ==
  [ sent   |-> TRUE,
    Data   |-> [ p \in Profs |-> SubSeq(profs[p].Data,   1, profs[p].NBin) ],
    Weight |-> [ p \in Profs |-> SubSeq(profs[p].Weight, 1, profs[p].NBin) ],
    NCell  |-> [ p \in Profs |-> SubSeq(profs[p].NCell,  1, profs[p].NBin) ] ]

\* ReduceSum that leaves the root with its own arrays only
ReduceSum_RootOnly(profs, msgs, r) == profs

\* MPI_SUM of the root's own arrays (MPI_IN_PLACE) and the contributions of
\* ranks 1 .. r
RECURSIVE ReduceSum(_, _, _)
ReduceSum(profs, msgs, r) ==
  IF r = 0 THEN profs
  ELSE LET acc == ReduceSum(profs, msgs, r - 1)
       IN  [ p \in Profs |->
               [ acc[p] EXCEPT
                   !.Data   = [ b \in 1..Len(@) |->
                                  IF b <= acc[p].NBin THEN RAdd(@[b], msgs[r].Data[p][b]) ELSE @[b] ],
                   !.Weight = [ b \in 1..Len(@) |->
                                  IF b <= acc[p].NBin THEN QAdd(@[b], msgs[r].Weight[p][b]) ELSE @[b] ],
                   !.NCell  = [ b \in 1..Len(@) |->
                                  IF b <= acc[p].NBin THEN @[b] + msgs[r].NCell[p][b] ELSE @[b] ] ] ]

\* Receive that leaves the rank with its local arrays
Receive_Nothing(profs, msg) == profs

\* MPI_Bcast received: the first Prof[p]->NBin entries are overwritten
Receive(profs, msg) ==
  [ p \in Profs |->
      [ profs[p] EXCEPT
          !.Data   = [ b \in 1..Len(@) |-> IF b <= profs[p].NBin THEN msg.Data[p][b]   ELSE @[b] ],
          !.Weight = [ b \in 1..Len(@) |-> IF b <= profs[p].NBin THEN msg.Weight[p][b] ELSE @[b] ],
          !.NCell  = [ b \in 1..Len(@) |-> IF b <= profs[p].NBin THEN msg.NCell[p][b]  ELSE @[b] ] ] ]

\* "compute profile by the root rank": Data[b] /= Weight[b]
\* NormalizeBin with the division applied twice
NormalizeBin_Twice(quant, data, weight, ncell) ==
  IF ncell > 0 /\ QLt(QInt(0), weight)
  THEN RScale(RScale(data, QDiv(QInt(1), weight)), QDiv(QInt(1), weight))
  ELSE data

NormalizeBin(quant, data, weight, ncell) ==
  IF ncell > 0
  THEN CASE quant \in { DENS, ENGY, MOMX, MOMY, MOMZ, PRESSURE, INTERNAL_ENGY } ->
              RScale(data, QDiv(QInt(1), weight))
         [] quant = VRAD ->
              IF QLt(QInt(0), weight) THEN RScale(data, QDiv(QInt(1), weight)) ELSE data
         [] OTHER -> data
  ELSE data

Normalized(profs) ==
  [ p \in Profs |->
      [ profs[p] EXCEPT
          !.Data = [ b \in 1..Len(@) |->
                       IF b <= profs[1].NBin
                       THEN NormalizeBin(arg.TVar[p], @[b], profs[p].Weight[b], profs[p].NCell[b])
                       ELSE @[b] ] ] ]

\* the first b_up >= from with Prof[0]->NCell[b_up] != 0, or Prof[0]->NBin
RECURSIVE FirstNonEmpty(_, _)
FirstNonEmpty(profs, from) ==
  IF from >= profs[1].NBin THEN profs[1].NBin
  ELSE IF profs[1].NCell[from + 1] # 0 THEN from
  ELSE FirstNonEmpty(profs, from + 1)

\* ShiftDown with the copy starting one entry late
ShiftDown_SkipFirst(a, b, stride, NBin) ==
  [ x \in 1..Len(a) |-> IF x - 1 > b /\ x - 1 + stride < NBin THEN a[x + stride] ELSE a[x] ]

\* entries b+stride .. NBin-1 copied down by stride (ascending, so each
\* source is read before it is overwritten)
ShiftDown(a, b, stride, NBin) ==
  [ x \in 1..Len(a) |-> IF x - 1 >= b /\ x - 1 + stride < NBin THEN a[x + stride] ELSE a[x] ]

\* the loop "for (int b=0; b<Prof[0]->NBin; b++)" from counter value b on
RECURSIVE RemoveLoop(_, _)
RemoveLoop(profs, b) ==
  IF b >= profs[1].NBin THEN profs
  ELSE IF profs[1].NCell[b + 1] # 0 THEN RemoveLoop(profs, b + 1)
  ELSE LET b_up   == FirstNonEmpty(profs, b + 1)
           stride == b_up - b
           NBin   == profs[1].NBin
           moved  == [ p \in Profs |->
                         [ profs[p] EXCEPT
                             !.Radius = ShiftDown(@, b, stride, NBin),
                             !.Data   = ShiftDown(@, b, stride, NBin),
                             !.Weight = ShiftDown(@, b, stride, NBin),
                             !.NCell  = ShiftDown(@, b, stride, NBin),
                             !.NBin   = @ - stride ] ]
       IN  RemoveLoop(moved, (b - 1) + 1)

\* RemoveEmptyBins without the test of the flag
RemoveEmptyBins_FlagIgnored(profs) == RemoveLoop(profs, 0)

RemoveEmptyBins(profs) == IF arg.RemoveEmpty THEN RemoveLoop(profs, 0) ELSE profs

\* the new MaxRadius of a profile with at least two bins
ExtrapolatedMaxRadius(prof) ==
  LET b == prof.NBin
  IN  IF arg.LogBin
      THEN RSqrOver(prof.Radius[b], prof.Radius[b - 1])
      ELSE RSub(RScale(prof.Radius[b], QInt(2)), prof.Radius[b - 1])

\* what a read of Radius[-1] or Radius[-2], outside the array, can leave in
\* MaxRadius
OutOfRangeResults == { RZero, RFromQ(QInt(1)) }

(***************************************************************************)
(* Inputs                                                                  *)
(***************************************************************************)
LinearBin(r_max, dr) ==
  [ LogBin |-> FALSE, r_max_input |-> r_max, dr_min |-> dr, LogBinRatio |-> QInt(2) ]
LogarithmicBin(r_max, dr, ratio) ==
  [ LogBin |-> TRUE, r_max_input |-> r_max, dr_min |-> dr, LogBinRatio |-> ratio ]

ValidBins ==
  { LinearBin(QInt(4), QInt(2)), LinearBin(QInt(5), QInt(1)), LinearBin(QInt(2), QInt(2)),
    LinearBin(<< 7, 2 >>, << 3, 2 >>),
    LogarithmicBin(QInt(2), QInt(1), QInt(2)), LogarithmicBin(QInt(3), QInt(2), << 3, 2 >>),
    LogarithmicBin(QInt(1), QInt(3), QInt(2)), LogarithmicBin(QInt(3), QInt(16), QInt(2)) }

InvalidBins ==
  { LinearBin(QInt(0), QInt(2)), LinearBin(QInt(4), QInt(0)),
    LogarithmicBin(QInt(2), QInt(1), QInt(1)) }

BoxCenter == << PatchWidth(0), PatchWidth(0) \div 2, PatchWidth(0) \div 2 >>
BoxCorner == << 0, 0, 0 >>

NoPeriodic  == [ f \in 1..6 |-> BC_FLU_OUTFLOW ]
AllPeriodic == [ f \in 1..6 |-> BC_FLU_PERIODIC ]
XPeriodic   == [ f \in 1..6 |-> IF f <= 2 THEN BC_FLU_PERIODIC ELSE BC_FLU_OUTFLOW ]

\* the centre of the box is within half a box of every cell, so there the
\* boundary condition has no effect
Centered == [ Center |-> BoxCenter, OPT__BC_FLU |-> NoPeriodic ]
Wrapped  == { [ Center |-> BoxCorner, OPT__BC_FLU |-> AllPeriodic ],
              [ Center |-> BoxCorner, OPT__BC_FLU |-> XPeriodic ] }

Thermal  == [ TVar |-> << DENS, ENGY, PRESSURE, INTERNAL_ENGY >>, field |-> "rho0" ]
Momenta  == [ TVar |-> << VRAD, MOMX, MOMY, MOMZ >>,              field |-> "vacuum" ]
BadQuant == [ TVar |-> << DENS, POTE >>,                          field |-> "rho0" ]

AllLevels == -1

\* The calls the model makes: every valid binning on the whole hierarchy,
\* then single levels, periodic boxes, the second decomposition, an
\* unsupported quantity, and invalid parameters with and without GAMER_DEBUG.
Inputs ==
  [ bin : ValidBins, RemoveEmpty : BOOLEAN, SingleLv : { AllLevels }, cbc : { Centered },
    partition : { "pairs" }, work : { Thermal }, GAMER_DEBUG : { FALSE } ]
  \cup
  [ bin : { LinearBin(QInt(5), QInt(1)), LogarithmicBin(QInt(2), QInt(1), QInt(2)) },
    RemoveEmpty : BOOLEAN, SingleLv : { AllLevels }, cbc : { Centered },
    partition : { "pairs" }, work : { Momenta }, GAMER_DEBUG : { FALSE } ]
  \cup
  [ bin : { LinearBin(QInt(5), QInt(1)) },
    RemoveEmpty : BOOLEAN, SingleLv : { 0 }, cbc : { Centered },
    partition : { "pairs" }, work : { Momenta }, GAMER_DEBUG : { FALSE } ]
  \cup
  [ bin : { LinearBin(QInt(4), QInt(2)), LinearBin(QInt(8), QInt(1)) },
    RemoveEmpty : BOOLEAN, SingleLv : { 0, 1 }, cbc : { Centered },
    partition : { "pairs" }, work : { Thermal }, GAMER_DEBUG : { FALSE } ]
  \cup
  [ bin : { LinearBin(QInt(5), QInt(1)) },
    RemoveEmpty : { TRUE }, SingleLv : { AllLevels }, cbc : Wrapped,
    partition : { "pairs" }, work : { Thermal }, GAMER_DEBUG : { FALSE } ]
  \cup
  [ bin : { LinearBin(QInt(5), QInt(1)) },
    RemoveEmpty : { TRUE }, SingleLv : { AllLevels }, cbc : { Centered },
    partition : { "blocks" }, work : { Thermal, Momenta }, GAMER_DEBUG : { FALSE } ]
  \cup
  [ bin : { LinearBin(QInt(3), QInt(1)) },
    RemoveEmpty : { FALSE }, SingleLv : { AllLevels, 0 }, cbc : { Centered },
    partition : { "pairs" }, work : { BadQuant }, GAMER_DEBUG : { FALSE } ]
  \cup
  [ bin : InvalidBins \cup { LinearBin(QInt(4), QInt(2)) },
    RemoveEmpty : { FALSE }, SingleLv : { AllLevels }, cbc : { Centered },
    partition : { "pairs" }, work : { Thermal }, GAMER_DEBUG : BOOLEAN ]

\* The cells of every patch for every choice of arguments and grid that
\* Inputs holds; an entry does not depend on RemoveEmpty, SingleLv, the
\* decomposition or the build.
CellKey(a, e) ==
  << a.r_max_input, a.dr_min, a.LogBin, a.LogBinRatio, a.TVar, a.Center,
     e.OPT__BC_FLU, e.field >>

CellKeys ==
  { CellKey([ r_max_input |-> x.bin.r_max_input, dr_min |-> x.bin.dr_min,
              LogBin |-> x.bin.LogBin, LogBinRatio |-> x.bin.LogBinRatio,
              TVar |-> x.work.TVar, Center |-> x.cbc.Center ],
            [ OPT__BC_FLU |-> x.cbc.OPT__BC_FLU, field |-> x.work.field ]) : x \in Inputs }

CellTable ==
  Tabulate(
  [ key \in CellKeys |->
      LET a == [ r_max_input |-> key[1], dr_min |-> key[2], LogBin |-> key[3],
                 LogBinRatio |-> key[4], TVar |-> key[5], Center |-> key[6] ]
          e == [ OPT__BC_FLU |-> key[7], field |-> key[8] ]
      IN  Tabulate([ n \in 1..Len(AllPatches) |-> CellsOfPatch(a, e, AllPatches[n]) ])
  ])

\* the cells of patch P under the arguments and the grid of this call
Cells(P) == CellTable[CellKey(arg, env)][P.id + 1]

(***************************************************************************)
(* The call                                                                *)
(***************************************************************************)
\* the state before Aux_ComputeProfile starts, for a call drawn from S
ProfileInit(S) ==
  /\ \E x \in S :
       /\ arg = [ r_max_input |-> x.bin.r_max_input, dr_min |-> x.bin.dr_min,
                  LogBin |-> x.bin.LogBin, LogBinRatio |-> x.bin.LogBinRatio,
                  RemoveEmpty |-> x.RemoveEmpty, TVar |-> x.work.TVar,
                  SingleLv |-> x.SingleLv, Center |-> x.cbc.Center ]
       /\ env = [ OPT__BC_FLU |-> x.cbc.OPT__BC_FLU, GAMER_DEBUG |-> x.GAMER_DEBUG,
                  partition |-> x.partition, field |-> x.work.field ]
  /\ pc = [ r \in Ranks |-> "start" ]
  /\ Prof = [ r \in Ranks |-> [ p \in 1..Len(arg.TVar) |-> EmptyProfile ] ]
  /\ OMP_Data = [ r \in Ranks |-> << >> ]
  /\ OMP_Weight = [ r \in Ranks |-> << >> ]
  /\ OMP_NCell = [ r \in Ranks |-> << >> ]
  /\ inited = [ r \in Ranks |-> {} ]
  /\ lv = [ r \in Ranks |-> 0 ]
  /\ PID = [ r \in Ranks |-> 0 ]
  /\ reduceMsg = [ r \in Ranks |-> NoMsg ]
  /\ bcastMsg = NoMsg
  /\ aborted = FALSE

Init ==
  /\ ProfileInit(Inputs)
  /\ call = NoCall
  /\ outcome = Pending

\* Aux_Error: the message is printed and the MPI job is terminated
Aux_Error(r) ==
  /\ pc' = [ pc EXCEPT ![r] = "error" ]
  /\ aborted' = TRUE

\* lines 79-88 in a build with GAMER_DEBUG
ParameterError(r) ==
  /\ ~aborted /\ pc[r] = "start"
  /\ env.GAMER_DEBUG /\ InvalidParameter
  /\ Aux_Error(r)
  /\ UNCHANGED << call, outcome, arg, env, Prof, OMP_Data, OMP_Weight, OMP_NCell, inited, lv, PID,
                  reduceMsg, bcastMsg >>

\* lines 91-142: geometry of every profile, then the per-thread arrays
GeometrySetup(r) ==
  /\ ~aborted /\ pc[r] = "start"
  /\ ~(env.GAMER_DEBUG /\ InvalidParameter)
  /\ GeometryDefined /\ GeomNBin >= 0
  /\ Prof' = [ Prof EXCEPT ![r] = [ p \in Profs |-> GeomProfile(Prof[r][p]) ] ]
  /\ OMP_Data'   = [ OMP_Data   EXCEPT ![r] = AllocateArray3D(GeomNBin, Uninit.Data) ]
  /\ OMP_Weight' = [ OMP_Weight EXCEPT ![r] = AllocateArray3D(GeomNBin, Uninit.Weight) ]
  /\ OMP_NCell'  = [ OMP_NCell  EXCEPT ![r] = AllocateArray3D(GeomNBin, Uninit.NCell) ]
  /\ lv' = [ lv EXCEPT ![r] = lv_min ]
  /\ PID' = [ PID EXCEPT ![r] = 0 ]
  /\ pc' = [ pc EXCEPT ![r] = "parallel" ]
  /\ UNCHANGED << call, outcome, arg, env, inited, reduceMsg, bcastMsg, aborted >>

\* lines 97/103 with a division by zero or a vanishing log(LogBinRatio), or
\* with a negative array size: the conversion to int and what follows are
\* undefined; the model records that NBin of profile 0 has been written and
\* follows the rank no further
GeometryUndefined(r) ==
  /\ ~aborted /\ pc[r] = "start"
  /\ ~(env.GAMER_DEBUG /\ InvalidParameter)
  /\ ~(GeometryDefined /\ GeomNBin >= 0)
  /\ \E n \in { 0, 1 } :
       Prof' = [ Prof EXCEPT ![r][1].NBin = n ]
  /\ pc' = [ pc EXCEPT ![r] = "undefined" ]
  /\ UNCHANGED << call, outcome, arg, env, OMP_Data, OMP_Weight, OMP_NCell, inited, lv, PID,
                  reduceMsg, bcastMsg, aborted >>

\* lines 160-167: thread TID zeroes its own slot
InitializeArrays(r, TID) ==
  /\ ~aborted /\ pc[r] = "parallel"
  /\ TID \notin inited[r]
  /\ OMP_Data'   = [ OMP_Data   EXCEPT ![r] = [ p \in Profs |-> [ @[p] EXCEPT ![TID] = [ b \in 1..Len(@) |-> RZero ] ] ] ]
  /\ OMP_Weight' = [ OMP_Weight EXCEPT ![r] = [ p \in Profs |-> [ @[p] EXCEPT ![TID] = [ b \in 1..Len(@) |-> QInt(0) ] ] ] ]
  /\ OMP_NCell'  = [ OMP_NCell  EXCEPT ![r] = [ p \in Profs |-> [ @[p] EXCEPT ![TID] = [ b \in 1..Len(@) |-> 0 ] ] ] ]
  /\ inited' = [ inited EXCEPT ![r] = @ \cup { TID } ]
  /\ UNCHANGED << call, outcome, arg, env, pc, Prof, lv, PID, reduceMsg, bcastMsg, aborted >>

\* amr->NPatchComma[lv][1] of rank r
NPatch(r, l) == Len(LocalPatches(env.partition, r, l))

\* the slot of thread TID, and the slot after the thread has run the
\* iteration PID[r] of the loop over the patches of level lv[r]
Slot(r, TID) ==
  [ err    |-> FALSE,
    Data   |-> [ p \in Profs |-> OMP_Data[r][p][TID] ],
    Weight |-> [ p \in Profs |-> OMP_Weight[r][p][TID] ],
    NCell  |-> [ p \in Profs |-> OMP_NCell[r][p][TID] ] ]

SlotAfterPatch(r, TID) ==
  LET P == LocalPatches(env.partition, r, lv[r])[PID[r] + 1]
  IN  AccumPatch(Slot(r, TID), Prof[r][1].NBin, RSquare(Prof[r][1].MaxRadius), P, Cells(P))

\* lines 178-314: "omp for schedule( runtime )" gives the next iteration to
\* any thread of the team that has reached the loop; the thread either adds
\* the cells of the patch to its slot or stops in Aux_Error (line 307, and
\* line 216 in a debug build)
\* StoreSlot into one array shared by the team instead of the slot [.][TID][.]
StoreSlot_Shared(r, TID, new) ==
  IF new.err
  THEN /\ Aux_Error(r)
       /\ UNCHANGED << OMP_Data, OMP_Weight, OMP_NCell, PID >>
  ELSE /\ OMP_Data'   = [ OMP_Data   EXCEPT ![r] = [ p \in Profs |-> [ @[p] EXCEPT ![0] = new.Data[p] ] ] ]
       /\ OMP_Weight' = [ OMP_Weight EXCEPT ![r] = [ p \in Profs |-> [ @[p] EXCEPT ![0] = new.Weight[p] ] ] ]
       /\ OMP_NCell'  = [ OMP_NCell  EXCEPT ![r] = [ p \in Profs |-> [ @[p] EXCEPT ![0] = new.NCell[p] ] ] ]
       /\ PID' = [ PID EXCEPT ![r] = @ + 1 ]
       /\ UNCHANGED << pc, aborted >>

\* the thread's slot `new` is written back, or the job ends in Aux_Error
StoreSlot(r, TID, new) ==
  IF new.err
  THEN /\ Aux_Error(r)
       /\ UNCHANGED << OMP_Data, OMP_Weight, OMP_NCell, PID >>
  ELSE /\ OMP_Data'   = [ OMP_Data   EXCEPT ![r] = [ p \in Profs |-> [ @[p] EXCEPT ![TID] = new.Data[p] ] ] ]
       /\ OMP_Weight' = [ OMP_Weight EXCEPT ![r] = [ p \in Profs |-> [ @[p] EXCEPT ![TID] = new.Weight[p] ] ] ]
       /\ OMP_NCell'  = [ OMP_NCell  EXCEPT ![r] = [ p \in Profs |-> [ @[p] EXCEPT ![TID] = new.NCell[p] ] ] ]
       /\ PID' = [ PID EXCEPT ![r] = @ + 1 ]
       /\ UNCHANGED << pc, aborted >>

AccumulatePatch(r, TID) ==
  /\ ~aborted /\ pc[r] = "parallel"
  /\ TID \in inited[r]
  /\ PID[r] < NPatch(r, lv[r])
  /\ StoreSlot(r, TID, SlotAfterPatch(r, TID))
  /\ UNCHANGED << call, outcome, arg, env, Prof, inited, lv, reduceMsg, bcastMsg >>

\* the implicit barrier that ends "omp for": the team moves to the next level
NextLevel(r) ==
  /\ ~aborted /\ pc[r] = "parallel"
  /\ inited[r] = Threads
  /\ PID[r] = NPatch(r, lv[r])
  /\ lv[r] < lv_max
  /\ lv' = [ lv EXCEPT ![r] = @ + 1 ]
  /\ PID' = [ PID EXCEPT ![r] = 0 ]
  /\ UNCHANGED << call, outcome, arg, env, pc, Prof, OMP_Data, OMP_Weight, OMP_NCell, inited,
                  reduceMsg, bcastMsg, aborted >>

\* lines 316-341: end of the parallel region, sum over the threads, free
SumThreads(r) ==
  /\ ~aborted /\ pc[r] = "parallel"
  /\ inited[r] = Threads
  /\ PID[r] = NPatch(r, lv[r])
  /\ lv[r] = lv_max
  /\ Prof' = [ Prof EXCEPT ![r] = ThreadSum(@, OMP_Data[r], OMP_Weight[r], OMP_NCell[r]) ]
  /\ OMP_Data'   = [ OMP_Data   EXCEPT ![r] = << >> ]
  /\ OMP_Weight' = [ OMP_Weight EXCEPT ![r] = << >> ]
  /\ OMP_NCell'  = [ OMP_NCell  EXCEPT ![r] = << >> ]
  /\ inited' = [ inited EXCEPT ![r] = {} ]
  /\ pc' = [ pc EXCEPT ![r] = "reduce" ]
  /\ UNCHANGED << call, outcome, arg, env, lv, PID, reduceMsg, bcastMsg, aborted >>

\* lines 355-360: a rank other than the root hands its arrays to MPI_Reduce
ReduceSend(r) ==
  /\ ~aborted /\ pc[r] = "reduce" /\ r # 0
  /\ reduceMsg' = [ reduceMsg EXCEPT ![r] = Message(Prof[r]) ]
  /\ pc' = [ pc EXCEPT ![r] = "bcast" ]
  /\ UNCHANGED << call, outcome, arg, env, Prof, OMP_Data, OMP_Weight, OMP_NCell, inited, lv, PID,
                  bcastMsg, aborted >>

\* lines 348-353: the root's MPI_Reduce returns once every rank has contributed
ReduceRoot ==
  /\ ~aborted /\ pc[0] = "reduce"
  /\ \A r \in Ranks \ { 0 } : reduceMsg[r].sent
  /\ Prof' = [ Prof EXCEPT ![0] = ReduceSum(@, reduceMsg, MPI_NRank - 1) ]
  /\ reduceMsg' = [ r \in Ranks |-> NoMsg ]
  /\ pc' = [ pc EXCEPT ![0] = "normalize" ]
  /\ UNCHANGED << call, outcome, arg, env, OMP_Data, OMP_Weight, OMP_NCell, inited, lv, PID,
                  bcastMsg, aborted >>

\* lines 365-395
Normalize ==
  /\ ~aborted /\ pc[0] = "normalize"
  /\ Prof' = [ Prof EXCEPT ![0] = Normalized(@) ]
  /\ pc' = [ pc EXCEPT ![0] = "bcast" ]
  /\ UNCHANGED << call, outcome, arg, env, OMP_Data, OMP_Weight, OMP_NCell, inited, lv, PID,
                  reduceMsg, bcastMsg, aborted >>

\* lines 398-404 on the root
BcastRoot ==
  /\ ~aborted /\ pc[0] = "bcast"
  /\ bcastMsg' = Message(Prof[0])
  /\ pc' = [ pc EXCEPT ![0] = "remove" ]
  /\ UNCHANGED << call, outcome, arg, env, Prof, OMP_Data, OMP_Weight, OMP_NCell, inited, lv, PID,
                  reduceMsg, aborted >>

\* lines 398-404 on the other ranks
BcastReceive(r) ==
  /\ ~aborted /\ pc[r] = "bcast" /\ r # 0
  /\ bcastMsg.sent
  /\ Prof' = [ Prof EXCEPT ![r] = Receive(@, bcastMsg) ]
  /\ pc' = [ pc EXCEPT ![r] = "remove" ]
  /\ UNCHANGED << call, outcome, arg, env, OMP_Data, OMP_Weight, OMP_NCell, inited, lv, PID,
                  reduceMsg, bcastMsg, aborted >>

\* lines 407-440
RemoveEmpty(r) ==
  /\ ~aborted /\ pc[r] = "remove"
  /\ Prof' = [ Prof EXCEPT ![r] = RemoveEmptyBins(@) ]
  /\ pc' = [ pc EXCEPT ![r] = "maxradius" ]
  /\ UNCHANGED << call, outcome, arg, env, OMP_Data, OMP_Weight, OMP_NCell, inited, lv, PID,
                  reduceMsg, bcastMsg, aborted >>

\* lines 443-450 with at least two bins left
UpdateMaxRadius(r) ==
  /\ ~aborted /\ pc[r] = "maxradius"
  /\ Prof[r][1].NBin >= 2
  /\ Prof' = [ Prof EXCEPT ![r] = [ p \in Profs |->
                [ Prof[r][p] EXCEPT !.MaxRadius = ExtrapolatedMaxRadius(Prof[r][p]) ] ] ]
  /\ pc' = [ pc EXCEPT ![r] = "done" ]
  /\ UNCHANGED << call, outcome, arg, env, OMP_Data, OMP_Weight, OMP_NCell, inited, lv, PID,
                  reduceMsg, bcastMsg, aborted >>

\* lines 443-450 with fewer than two bins: Radius[b-2] (and Radius[b-1] when
\* no bin is left) lies outside the array, the value read is indeterminate
UpdateMaxRadiusOutOfRange(r) ==
  /\ ~aborted /\ pc[r] = "maxradius"
  /\ Prof[r][1].NBin < 2
  /\ \E g \in OutOfRangeResults :
       Prof' = [ Prof EXCEPT ![r] = [ p \in Profs |-> [ @[p] EXCEPT !.MaxRadius = g ] ] ]
  /\ pc' = [ pc EXCEPT ![r] = "done" ]
  /\ UNCHANGED << call, outcome, arg, env, OMP_Data, OMP_Weight, OMP_NCell, inited, lv, PID,
                  reduceMsg, bcastMsg, aborted >>

Next ==
  \/ \E r \in Ranks : ParameterError(r)
  \/ \E r \in Ranks : GeometrySetup(r)
  \/ \E r \in Ranks : GeometryUndefined(r)
  \/ \E r \in Ranks, TID \in Threads : InitializeArrays(r, TID)
  \/ \E r \in Ranks, TID \in Threads : AccumulatePatch(r, TID)
  \/ \E r \in Ranks : NextLevel(r)
  \/ \E r \in Ranks : SumThreads(r)
  \/ \E r \in Ranks : ReduceSend(r)
  \/ ReduceRoot
  \/ Normalize
  \/ BcastRoot
  \/ \E r \in Ranks : BcastReceive(r)
  \/ \E r \in Ranks : RemoveEmpty(r)
  \/ \E r \in Ranks : UpdateMaxRadius(r)
  \/ \E r \in Ranks : UpdateMaxRadiusOutOfRange(r)

Spec == Init /\ [][Next]_vars

(***************************************************************************)
(* Mis_GetTimeStep (src/Miscellaneous/Mis_GetTimeStep.cpp) in the build    *)
(* MODEL == HYDRO without COMOVING, GRAVITY and PARTICLE.  The variable    *)
(* call holds the two arguments lv and dTime_SyncFaLv together with the    *)
(* globals and the results of the external routines the function reads.    *)
(***************************************************************************)
DT_LEVEL_SHARED   == "DT_LEVEL_SHARED"
DT_LEVEL_FLEXIBLE == "DT_LEVEL_FLEXIBLE"

OUTPUT_CONST_STEP == "OUTPUT_CONST_STEP"
OUTPUT_CONST_DT   == "OUTPUT_CONST_DT"
OUTPUT_USE_TABLE  == "OUTPUT_USE_TABLE"

\* a value above every time interval of the simulation
HUGE_NUMBER == QInt(1000000)

fmin(a, b) == IF QLe(a, b) THEN a ELSE b

\* line 54: no COMOVING
dTime_dt == QInt(1)

\* 1.1: c.dt_FluSolver is what dt_InvokeSolver( DT_FLU_SOLVER, lv ) returns
dTime1(c) == QMul(dTime_dt, c.dt_FluSolver)

\* 1.4
DumpByTime(c) ==
  c.DumpData /\ c.OPT__OUTPUT_MODE \in { OUTPUT_CONST_DT, OUTPUT_USE_TABLE }

dTime4(c) == QSub(c.DumpTime, c.Time[c.lv])

\* 1.5
dTime5(c) == QSub(c.END_T, c.Time[c.lv])

\* 1.6: c.dt_User is what Mis_GetTimeStep_User_Ptr( dTime_dt ) returns, and
\* c.User_Ptr_Set tells whether that pointer is not NULL
UserCriterion(c) == c.OPT__DT_USER /\ c.User_Ptr_Set

dTime6(c) == QMul(dTime_dt, c.dt_User)

\* 2.1: the minimum over the criteria that apply
CriteriaMin(c) ==
  LET m1 == dTime1(c)
      m4 == IF DumpByTime(c) THEN fmin(m1, dTime4(c)) ELSE m1
      m5 == fmin(m4, dTime5(c))
  IN  IF UserCriterion(c) THEN fmin(m5, dTime6(c)) ELSE m5

\* 2.2: the condition and the body of the synchronization with the parent
SyncWithParent(c) == c.OPT__DT_LEVEL = DT_LEVEL_FLEXIBLE /\ c.lv > 0

SyncFaLv_Always(c, dTime_min) == c.dTime_SyncFaLv

SyncFaLv(c, dTime_min) ==
  IF QLe(c.dTime_SyncFaLv, QMul(QAdd(QInt(1), c.DT__FLEXIBLE_RANGE), dTime_min))
  THEN c.dTime_SyncFaLv
  ELSE dTime_min

\* 3: Mis_dTime2dt is not part of the sources at hand; its result is either
\* the interval itself (dt = dTime in static space) or a non-positive value
Mis_dTime2dt(c, dTime) == IF c.dTime2dt = "dTime" THEN dTime ELSE QInt(0)

\* the criteria evaluated when the function has got past section 1.n
Evaluated(c, n) ==
  { k \in { 1, 4, 5, 6 } :
      /\ k <= n
      /\ k = 4 => DumpByTime(c)
      /\ k = 6 => UserCriterion(c) }

Returns(value, crit) == [ kind |-> "return", value |-> value, criteria |-> crit ]

Exits(crit) == [ kind |-> "MPI_Exit", criteria |-> crit ]

Fails(crit) == [ kind |-> "Aux_Error", criteria |-> crit ]

\* 5: verify the time-step
Verify(c, dTime_min) ==
  IF \/ QLe(Mis_dTime2dt(c, dTime_min), QInt(0))
     \/ QLe(dTime_min, QInt(0))
  THEN Fails(Evaluated(c, 6))
  ELSE Returns(dTime_min, Evaluated(c, 6))

Mis_GetTimeStep(c) ==
  IF c.NPatchTotal[c.lv] = 0 THEN Returns(HUGE_NUMBER, {})
  ELSE IF DumpByTime(c) /\ QLe(dTime4(c), QInt(0)) THEN Exits(Evaluated(c, 4))
  ELSE IF QLe(dTime5(c), QInt(0)) THEN Exits(Evaluated(c, 5))
  ELSE IF ~SyncWithParent(c) THEN Verify(c, CriteriaMin(c))
  ELSE IF QLe(c.dTime_SyncFaLv, QInt(0)) THEN Exits(Evaluated(c, 6))
  ELSE Verify(c, SyncFaLv(c, CriteriaMin(c)))

\* the times of the levels: a finer level is never ahead of a coarser one
LevelTimes ==
  { t \in [ Levels -> { QInt(0), QInt(1), QInt(2) } ] :
      \A l \in Levels : l > 0 => QLe(t[l], t[l - 1]) }

Calls ==
  [ called : { TRUE },
    lv : Levels,
    dTime_SyncFaLv : { QInt(0), QInt(1), QInt(2), QInt(3) },
    NPatchTotal : { [ l \in Levels |-> 8 ],
                    [ l \in Levels |-> IF l = 0 THEN 8 ELSE 0 ] },
    Time : LevelTimes,
    END_T : { QInt(2), QInt(3) },
    dt_FluSolver : { QInt(0), QInt(1), QInt(2), QInt(4) },
    DumpData : BOOLEAN,
    OPT__OUTPUT_MODE : { OUTPUT_CONST_STEP, OUTPUT_CONST_DT },
    DumpTime : { QInt(1), QInt(2) },
    OPT__DT_USER : BOOLEAN,
    User_Ptr_Set : { TRUE },
    dt_User : { QNorm(3, 2) },
    OPT__DT_LEVEL : { DT_LEVEL_SHARED, DT_LEVEL_FLEXIBLE },
    DT__FLEXIBLE_RANGE : { QInt(0), QNorm(1, 2) },
    dTime2dt : { "dTime", "zero" } ]

InitDT ==
  /\ ProfileInit({ CHOOSE x \in Inputs : TRUE })
  /\ call \in Calls
  /\ outcome = Pending

GetTimeStep ==
  /\ call.called
  /\ outcome = Pending
  /\ outcome' = Mis_GetTimeStep(call)
  /\ UNCHANGED << call, profVars >>

NextDT == GetTimeStep

SpecDT == InitDT /\ [][NextDT]_vars


(***************************************************************************)
(* Properties                                                              *)
(***************************************************************************)
\* rank r holds the reduced, normalized and broadcast arrays and has not yet
\* removed a bin
HoldsResult(r) == pc[r] = "remove" \/ (r = 0 /\ pc[r] \in { "normalize", "bcast" })

\* << n, c >>: cell c of patch AllPatches[n], for the leaf patches on the
\* levels the call considers
LeafCells ==
  { x \in (1..Len(AllPatches)) \X (1..CUBE(PS1)) :
      /\ AllPatches[x[1]].son = -1
      /\ AllPatches[x[1]].lv \in lv_min..lv_max }

\* the leaf cells strictly inside the outer radius fixed by the geometry
CellsInRadius ==
  { x \in LeafCells :
      QLt(QInt(CellR2(arg, env, AllPatches[x[1]],
                      CellK(x[2] - 1), CellJ(x[2] - 1), CellI(x[2] - 1))),
          SQR(GeomMaxRadius(GeomNBin))) }

\* N[1] + ... + N[b]
RECURSIVE TotalNCell(_, _)
TotalNCell(N, b) == IF b = 0 THEN 0 ELSE TotalNCell(N, b - 1) + N[b]

\* C3: before the empty bins are removed, the cell counts of every profile
\* add up to the number of cells of leaf patches on the considered levels
\* whose wrapped squared distance to the centre is below the squared outer
\* radius: refined patches and cells outside contribute nothing, every
\* other cell is counted once.
C3_CellCountIsLeafCellsInRadius ==
  \A r \in Ranks :
    HoldsResult(r) =>
      \A p \in Profs :
        TotalNCell(Prof[r][p].NCell, Prof[r][p].NBin) = Cardinality(CellsInRadius)

\* a rank other than the root holds the broadcast counts of a call over all
\* levels in which some leaf cells are inside the radius and some are not
C3_Witness ==
  /\ arg.SingleLv < 0
  /\ \E r \in Ranks \ { 0 } : pc[r] = "remove"
  /\ CellsInRadius # {}
  /\ CellsInRadius # LeafCells

(***************************************************************************)
(* The same call on a single rank that owns every patch                    *)
(***************************************************************************)
\* the patches of levels l .. lv_max in the order of the loops over lv and PID
RECURSIVE PatchesFrom(_)
PatchesFrom(l) ==
  IF l > lv_max THEN << >>
  ELSE SelectSeq(AllPatches, LAMBDA P : P.lv = l) \o PatchesFrom(l + 1)

\* a thread's slot after lines 160-167
ZeroSlot(NBin) ==
  [ err    |-> FALSE,
    Data   |-> Tabulate([ p \in Profs |-> [ b \in 1..NBin |-> RZero ] ]),
    Weight |-> Tabulate([ p \in Profs |-> [ b \in 1..NBin |-> QInt(0) ] ]),
    NCell  |-> Tabulate([ p \in Profs |-> [ b \in 1..NBin |-> 0 ] ]) ]

\* the slot after patches n, n+1, ... have been added to it
RECURSIVE AccumPatches(_, _, _, _, _)
AccumPatches(acc, NBin, r_max2, patches, n) ==
  IF n > Len(patches) THEN acc
  ELSE AccumPatches(AccumPatch(acc, NBin, r_max2, patches[n], Cells(patches[n])),
                    NBin, r_max2, patches, n + 1)

\* thread 0 of the single rank runs every iteration, the other threads none
SingleRankArrays(slot, zero, f) ==
  [ p \in Profs |-> [ t \in Threads |-> IF t = 0 THEN slot[f][p] ELSE zero[f][p] ] ]

SingleRankSum(geom, slot, zero) ==
  ThreadSum(geom, SingleRankArrays(slot, zero, "Data"), SingleRankArrays(slot, zero, "Weight"),
            SingleRankArrays(slot, zero, "NCell"))

\* Prof[] of the single rank after the normalization (there is nothing to
\* reduce and nothing to receive)
SingleRankRun ==
  Normalized(SingleRankSum([ p \in Profs |-> GeomProfile(EmptyProfile) ],
                           AccumPatches(ZeroSlot(GeomNBin), GeomNBin, SQR(GeomMaxRadius(GeomNBin)),
                                        PatchesFrom(lv_min), 1),
                           ZeroSlot(GeomNBin)))

\* the entries 0 .. NBin-1 of the four arrays of a profile, and NBin
Bins(prof) ==
  [ NBin   |-> prof.NBin,
    Radius |-> SubSeq(prof.Radius, 1, prof.NBin),
    Data   |-> SubSeq(prof.Data,   1, prof.NBin),
    Weight |-> SubSeq(prof.Weight, 1, prof.NBin),
    NCell  |-> SubSeq(prof.NCell,  1, prof.NBin) ]

\* C2: whatever the partition of the patches over the ranks (and of a
\* rank's patches over its threads), the cell counts, weights and data that
\* every rank holds after the reduction, the normalization and the
\* broadcast are those of a single rank that owns the whole domain.
C2_PartitionEqualsSingleRank ==
  \A r \in Ranks :
    pc[r] = "remove" =>
      \A single \in { SingleRankRun } :
        \A p \in Profs : Bins(Prof[r][p]) = Bins(single[p])

\* a rank other than the root holds the broadcast arrays of a call in which
\* both ranks own leaf cells inside the radius
C2_Witness ==
  /\ \E r \in Ranks \ { 0 } : pc[r] = "remove"
  /\ \A r \in Ranks :
       \E x \in CellsInRadius : OwnerOf(env.partition, AllPatches[x[1]].id) = r

Returned(r) == pc[r] = "done"

\* what the caller finds in a profile
Result(prof) == << Bins(prof), prof.MaxRadius >>

\* C1: once every rank has returned, every rank holds the same bin count,
\* radius, data, weight, cell count and outer radius in every profile.
C1_AllRanksHoldTheSameResult ==
  (\A r \in Ranks : Returned(r)) =>
    \A r \in Ranks : \A p \in Profs : Result(Prof[r][p]) = Result(Prof[0][p])

\* every cell of every leaf patch holds the density Rho0
UniformDensity ==
  \A n \in 1..Len(AllPatches) : \A c \in 1..CUBE(PS1) :
    AllPatches[n].son = -1 =>
      fluid(env.field, DENS, AllPatches[n], CellK(c - 1), CellJ(c - 1), CellI(c - 1)) = Rho0

\* C4: with the same density Rho0 in every leaf cell, the density profile
\* a rank returns with holds Rho0 in every bin that is not empty.
C4_UniformDensityProfile ==
  UniformDensity =>
    \A r \in Ranks : \A p \in Profs :
      (Returned(r) /\ arg.TVar[p] = DENS) =>
        \A b \in 1..Prof[r][p].NBin :
          Prof[r][p].NCell[b] > 0 => Prof[r][p].Data[b] = RFromQ(QInt(Rho0))

\* a rank has returned from a call with logarithmic bins over both levels
\* of a uniform density, with a bin that is not empty
C4_Witness ==
  /\ UniformDensity /\ arg.LogBin /\ arg.SingleLv < 0
  /\ \E r \in Ranks : \E p \in Profs :
       /\ Returned(r) /\ arg.TVar[p] = DENS
       /\ \E b \in 1..Prof[r][p].NBin : Prof[r][p].NCell[b] > 0
  /\ \E x \in CellsInRadius : AllPatches[x[1]].lv = 0
  /\ \E x \in CellsInRadius : AllPatches[x[1]].lv = TOP_LEVEL

\* the bins of a profile whose cell count is not zero, in increasing order
RECURSIVE NonEmptyBins(_, _)
NonEmptyBins(prof, b) ==
  IF b > prof.NBin THEN << >>
  ELSE IF prof.NCell[b] # 0 THEN << b >> \o NonEmptyBins(prof, b + 1)
  ELSE NonEmptyBins(prof, b + 1)

\* the entries of array A at the bins of `keep`, in that order
Kept(A, keep) == [ i \in 1..Len(keep) |-> A[keep[i]] ]

\* the profile with every bin of cell count zero deleted by hand
DeleteEmptyBins(prof) ==
  [ NBin   |-> Len(NonEmptyBins(prof, 1)),
    Radius |-> Kept(prof.Radius, NonEmptyBins(prof, 1)),
    Data   |-> Kept(prof.Data,   NonEmptyBins(prof, 1)),
    Weight |-> Kept(prof.Weight, NonEmptyBins(prof, 1)),
    NCell  |-> Kept(prof.NCell,  NonEmptyBins(prof, 1)) ]

\* C5: the bins a rank holds after the removal of a call with RemoveEmpty
\* are those of the same call without RemoveEmpty (which returns the arrays
\* of SingleRankRun as they are) with the empty bins deleted by hand.
C5_RemoveEmptyEqualsDeletionByHand ==
  \A r \in Ranks :
    (arg.RemoveEmpty /\ pc[r] \in { "maxradius", "done" }) =>
      \A single \in { SingleRankRun } :
        \A p \in Profs : Bins(Prof[r][p]) = DeleteEmptyBins(single[p])

\* a rank has returned from a call with RemoveEmpty that removed bins and
\* kept at least two
C5_Witness ==
  /\ arg.RemoveEmpty
  /\ \E r \in Ranks :
       /\ Returned(r)
       /\ Prof[r][1].NBin < GeomNBin
       /\ Prof[r][1].NBin >= 2

\* rank r executes lines 407-440
RemovalStep(r) == pc[r] = "remove" /\ pc'[r] = "maxradius"

EmptyBins(prof) == { b \in 1..prof.NBin : prof.NCell[b] = 0 }

\* C6: with RemoveEmpty the removal leaves no empty bin, keeps exactly the
\* non-empty bins in their order with radius, data, weight and cell count
\* unchanged, and lowers the bin count of every profile by the number of
\* empty bins; without RemoveEmpty the bin count and the arrays stay as
\* they are and every empty bin holds data = weight = cell count = 0.
C6_EmptyBinRemoval ==
  [][ \A r \in Ranks :
        RemovalStep(r) =>
          \A p \in Profs :
            IF arg.RemoveEmpty
            THEN /\ \A b \in 1..Prof'[r][p].NBin : Prof'[r][p].NCell[b] # 0
                 /\ Bins(Prof'[r][p]) = DeleteEmptyBins(Prof[r][p])
                 /\ Prof'[r][p].NBin = Prof[r][p].NBin - Cardinality(EmptyBins(Prof[r][p]))
            ELSE /\ Bins(Prof'[r][p]) = Bins(Prof[r][p])
                 /\ \A b \in EmptyBins(Prof'[r][p]) :
                      /\ Prof'[r][p].Data[b] = RZero
                      /\ Prof'[r][p].Weight[b] = QInt(0) ]_vars

\* a rank has removed a run of empty bins at the start, one in the middle
\* and one at the end of the bin range
C6_Witness ==
  /\ arg.RemoveEmpty
  /\ \E r \in Ranks : pc[r] \in { "maxradius", "done" } /\ Prof[r][1].NBin >= 2
  /\ \A single \in { SingleRankRun } :
       /\ single[1].NCell[1] = 0
       /\ single[1].NCell[single[1].NBin] = 0
       /\ \E b1, b2, b3 \in 1..single[1].NBin :
            /\ b1 < b2 /\ b2 < b3
            /\ single[1].NCell[b1] # 0 /\ single[1].NCell[b2] = 0 /\ single[1].NCell[b3] # 0

\* a call without RemoveEmpty has returned with an empty bin in its arrays
C6_WitnessKept ==
  /\ ~arg.RemoveEmpty
  /\ \E r \in Ranks : Returned(r) /\ EmptyBins(Prof[r][1]) # {}

ValidParameters ==
  /\ QLt(QInt(0), arg.r_max_input)
  /\ QLt(QInt(0), arg.dr_min)
  /\ arg.LogBin => QLt(QInt(1), arg.LogBinRatio)

StrictlyIncreasing(prof) ==
  \A b \in 1..(prof.NBin - 1) : RLt(prof.Radius[b], prof.Radius[b + 1])

\* C7: for valid parameters the radius of every profile is strictly
\* increasing from the geometry setup on, also after empty bins are removed.
C7_RadiusStrictlyIncreasing ==
  ValidParameters =>
    \A r \in Ranks : \A p \in Profs :
      Prof[r][p].Allocated => StrictlyIncreasing(Prof[r][p])

\* a rank has returned from a call with logarithmic bins that removed an
\* empty bin and kept at least two
C7_Witness ==
  /\ ValidParameters /\ arg.LogBin /\ arg.RemoveEmpty
  /\ \E r \in Ranks :
       /\ Returned(r)
       /\ Prof[r][1].NBin < GeomNBin
       /\ Prof[r][1].NBin >= 2

\* r_max <= 0, or dr_min <= 0, or ratio <= 1 with logarithmic bins
BadParameters ==
  \/ arg.r_max_input[1] <= 0
  \/ arg.dr_min[1] <= 0
  \/ (arg.LogBin /\ arg.LogBinRatio[1] <= arg.LogBinRatio[2])

\* nothing of the profiles of rank r has been allocated or written
Untouched(r) ==
  /\ \A p \in Profs : Prof[r][p] = EmptyProfile
  /\ OMP_Data[r] = << >> /\ OMP_Weight[r] = << >> /\ OMP_NCell[r] = << >>

\* C8 as stated: a call with an invalid parameter never gets past its start
\* other than into the error, and leaves every profile untouched.
C8_InvalidParameterIsFatal ==
  BadParameters =>
    \A r \in Ranks : pc[r] \in { "start", "error" } /\ Untouched(r)

\* C8, amended: in a build with GAMER_DEBUG a call with an invalid parameter
\* can only end in the invalid-parameter error, which leaves every profile
\* untouched; in a build without GAMER_DEBUG that error is never raised.
C8_InvalidParameterIsFatalInDebugBuild ==
  /\ (env.GAMER_DEBUG /\ BadParameters) =>
       \A r \in Ranks :
         /\ pc[r] \in { "start", "error" }
         /\ Untouched(r)
         /\ (pc[r] = "start" /\ ~aborted) => ENABLED ParameterError(r)
  /\ ~env.GAMER_DEBUG => \A r \in Ranks : ~ENABLED ParameterError(r)

\* a debug build has ended a call with an invalid parameter in the error
C8_Witness ==
  /\ env.GAMER_DEBUG /\ BadParameters /\ aborted
  /\ \E r \in Ranks : pc[r] = "error"

\* density, total energy, momentum x/y/z, radial velocity, pressure and
\* internal energy
Recognized == { DENS, ENGY, MOMX, MOMY, MOMZ, VRAD, PRESSURE, INTERNAL_ENGY }

UnsupportedQuantity == \E p \in Profs : arg.TVar[p] \notin Recognized

C10_LinearBinsAndOuterRadius ==
  (~arg.LogBin /\ ValidParameters) =>
    \A r \in Ranks : \A p \in Profs :
      /\ (Prof[r][p].Allocated /\ pc[r] \in { "parallel", "reduce", "normalize", "bcast", "remove" }) =>
           /\ Prof[r][p].NBin = CeilQ(QDiv(arg.r_max_input, arg.dr_min))
           /\ \A b \in 1..Prof[r][p].NBin :
                Prof[r][p].Radius[b] = RFromQ(QMul(<< 2 * (b - 1) + 1, 2 >>, arg.dr_min))
           /\ Prof[r][p].MaxRadius = RFromQ(QMul(arg.dr_min, QInt(Prof[r][p].NBin)))
      /\ (Returned(r) /\ Prof[r][p].NBin = CeilQ(QDiv(arg.r_max_input, arg.dr_min))) =>
           Prof[r][p].MaxRadius = RFromQ(QMul(arg.dr_min, QInt(Prof[r][p].NBin)))

\* rank r is past the geometry setup and before the removal of empty bins
BeforeRemoval(r) == pc[r] \in { "parallel", "reduce", "normalize", "bcast", "remove" }

\* r_max/dr_min
RadiusRatio == QDiv(arg.r_max_input, arg.dr_min)

\* C11 as stated: with logarithmic bins and valid parameters the geometry
\* sets NBin = floor( log(r_max/dr_min)/log(ratio) ) + 2, that is
\* ratio^(NBin-2) <= r_max/dr_min < ratio^(NBin-1), and
\* MaxRadius = dr_min*ratio^(NBin-1).
C11_LogBinCountIsFloor ==
  (arg.LogBin /\ ValidParameters) =>
    \A r \in Ranks : \A p \in Profs :
      BeforeRemoval(r) =>
        /\ QLe(QPow(arg.LogBinRatio, Prof[r][p].NBin - 2), RadiusRatio)
        /\ QLt(RadiusRatio, QPow(arg.LogBinRatio, Prof[r][p].NBin - 1))
        /\ Prof[r][p].MaxRadius =
             RFromQ(QMul(arg.dr_min, QPow(arg.LogBinRatio, Prof[r][p].NBin - 1)))

\* C11, amended: the quotient of the logarithms is truncated toward zero:
\* for r_max >= dr_min  ratio^(NBin-2) <= r_max/dr_min < ratio^(NBin-1),
\* for r_max <  dr_min  NBin <= 2 and
\* ratio^(NBin-3) < r_max/dr_min <= ratio^(NBin-2);
\* in both cases MaxRadius = dr_min*ratio^(NBin-1).
C11_LogBinCountIsTruncation ==
  (arg.LogBin /\ ValidParameters) =>
    \A r \in Ranks : \A p \in Profs :
      BeforeRemoval(r) =>
        /\ QLe(QInt(1), RadiusRatio) =>
             /\ Prof[r][p].NBin >= 2
             /\ QLe(QPow(arg.LogBinRatio, Prof[r][p].NBin - 2), RadiusRatio)
             /\ QLt(RadiusRatio, QPow(arg.LogBinRatio, Prof[r][p].NBin - 1))
        /\ QLt(RadiusRatio, QInt(1)) =>
             /\ Prof[r][p].NBin <= 2
             /\ QLt(QPow(arg.LogBinRatio, Prof[r][p].NBin - 3), RadiusRatio)
             /\ QLe(RadiusRatio, QPow(arg.LogBinRatio, Prof[r][p].NBin - 2))
        /\ Prof[r][p].MaxRadius =
             RFromQ(QMul(arg.dr_min, QPow(arg.LogBinRatio, Prof[r][p].NBin - 1)))

\* a rank has set up logarithmic bins for r_max < dr_min
C11_Witness ==
  /\ arg.LogBin /\ ValidParameters /\ QLt(RadiusRatio, QInt(1))
  /\ \E r \in Ranks : BeforeRemoval(r) /\ Prof[r][1].Allocated

\* Prof[] of the single rank before the normalization: the sums of the
\* contributions and of the weights of the cells of every bin
SingleRankRaw ==
  SingleRankSum([ p \in Profs |-> GeomProfile(EmptyProfile) ],
                AccumPatches(ZeroSlot(GeomNBin), GeomNBin, SQR(GeomMaxRadius(GeomNBin)),
                             PatchesFrom(lv_min), 1),
                ZeroSlot(GeomNBin))

\* the sum `data` divided once by the sum `weight`; for the radial velocity
\* only if the weight is positive
DividedOnce(quant, data, weight) ==
  IF quant = VRAD /\ weight = QInt(0) THEN data ELSE RScale(data, QDiv(QInt(1), weight))

\* the profile of sums `raw` with the data of every non-empty bin divided once
DividedProfile(quant, raw) ==
  [ raw EXCEPT !.Data = [ b \in 1..Len(@) |->
                            IF raw.NCell[b] > 0
                            THEN DividedOnce(quant, @[b], raw.Weight[b]) ELSE @[b] ] ]

\* C12: in every non-empty bin a rank returns with, data is the sum of the
\* contributions of the bin's cells divided once by the sum of their weights
\* (for the radial velocity with weight 0: the sum itself), and weight is
\* the sum of the weights.
C12_DataIsSumDividedOnce ==
  \A r \in Ranks :
    Returned(r) =>
      \A raw \in { SingleRankRaw } :
        \A p \in Profs :
          DeleteEmptyBins(Prof[r][p]) = DeleteEmptyBins(DividedProfile(arg.TVar[p], raw[p]))

\* a rank has returned a radial-velocity profile with a non-empty bin of
\* weight 0 that holds the sum as accumulated
C12_Witness ==
  \E r \in Ranks : \E p \in Profs :
    /\ Returned(r) /\ arg.TVar[p] = VRAD
    /\ \E b \in 1..Prof[r][p].NBin :
         /\ Prof[r][p].NCell[b] > 0
         /\ Prof[r][p].Weight[b] = QInt(0)
         /\ Prof[r][p].Data[b] # RZero

\* a rank has returned a radial-velocity profile with a bin of weight > 0
C12_WitnessDivided ==
  \E r \in Ranks : \E p \in Profs :
    /\ Returned(r) /\ arg.TVar[p] = VRAD
    /\ \E b \in 1..Prof[r][p].NBin :
         /\ QLt(QInt(0), Prof[r][p].Weight[b])
         /\ Prof[r][p].Data[b] # RZero

\* the quantities whose weight is the cell volume
VolumeWeighted == { DENS, ENGY, MOMX, MOMY, MOMZ, PRESSURE, INTERNAL_ENGY }

\* C13: in the profiles a rank returns with, a bin without cells holds
\* data = 0 and weight = 0, and for a volume-weighted quantity a bin with
\* cells holds a weight > 0 that lies between the cell count times the
\* smallest and times the largest cell volume.
C13_EmptyBinsAreZero ==
  \A r \in Ranks : \A p \in Profs :
    Returned(r) =>
      \A b \in 1..Prof[r][p].NBin :
        /\ Prof[r][p].NCell[b] = 0 =>
             (Prof[r][p].Data[b] = RZero /\ Prof[r][p].Weight[b] = QInt(0))
        /\ (Prof[r][p].NCell[b] > 0 /\ arg.TVar[p] \in VolumeWeighted) =>
             /\ QLt(QInt(0), Prof[r][p].Weight[b])
             /\ QLe(QInt(Prof[r][p].NCell[b] * CUBE(dh(TOP_LEVEL))), Prof[r][p].Weight[b])
             /\ QLe(Prof[r][p].Weight[b], QInt(Prof[r][p].NCell[b] * CUBE(dh(0))))

\* a rank has returned volume-weighted profiles with an empty bin and a bin
\* that holds cells of both levels
C13_Witness ==
  \E r \in Ranks : \E p \in Profs :
    /\ Returned(r) /\ arg.TVar[p] \in VolumeWeighted
    /\ \E b \in 1..Prof[r][p].NBin : Prof[r][p].NCell[b] = 0
    /\ \E b \in 1..Prof[r][p].NBin :
         /\ Prof[r][p].NCell[b] > 0
         /\ QLt(QInt(Prof[r][p].NCell[b] * CUBE(dh(TOP_LEVEL))), Prof[r][p].Weight[b])
         /\ QLt(Prof[r][p].Weight[b], QInt(Prof[r][p].NCell[b] * CUBE(dh(0))))

\* the rank has handed its sums to MPI_Reduce (not the root), or is past it
PastReduce(r) ==
  IF r = 0 THEN pc[r] \in { "normalize", "bcast", "remove", "maxradius", "done" }
  ELSE pc[r] \in { "bcast", "remove", "maxradius", "done" }

\* the rank is past MPI_Bcast
PastBcast(r) == pc[r] \in { "remove", "maxradius", "done" }

\* C14: the root normalizes only when every rank has handed its thread sums
\* to the reduction and the root holds the sums over all ranks and threads;
\* a rank is past the broadcast only when the root has broadcast, and a rank
\* that starts the removal holds exactly the broadcast data, weight and
\* cell count.
C14_PhaseOrder ==
  /\ PastReduce(0) => \A r \in Ranks : PastReduce(r)
  /\ pc[0] = "normalize" =>
       \A raw \in { SingleRankRaw } : \A p \in Profs : Bins(Prof[0][p]) = Bins(raw[p])
  /\ \A r \in Ranks :
       /\ PastBcast(r) => (PastBcast(0) /\ bcastMsg.sent)
       /\ pc[r] = "remove" => Message(Prof[r]) = bcastMsg

\* a rank other than the root is about to remove empty bins, and its local
\* sums were not the reduced ones: every rank owns cells inside the radius
C14_Witness ==
  /\ \E r \in Ranks \ { 0 } : pc[r] = "remove"
  /\ arg.RemoveEmpty
  /\ \A r \in Ranks :
       \E x \in CellsInRadius : OwnerOf(env.partition, AllPatches[x[1]].id) = r
  /\ CellsInRadius # LeafCells

\* the patches of rank r on levels l .. lv_max in the order of the loops
RECURSIVE LocalPatchesFrom(_, _)
LocalPatchesFrom(r, l) ==
  IF l > lv_max THEN << >>
  ELSE LocalPatches(env.partition, r, l) \o LocalPatchesFrom(r, l + 1)

\* Prof[] of rank r after the sum over threads when one thread runs every
\* iteration in loop order
OneThreadSum(r) ==
  SingleRankSum(Prof[r],
                AccumPatches(ZeroSlot(Prof[r][1].NBin), Prof[r][1].NBin,
                             RSquare(Prof[r][1].MaxRadius), LocalPatchesFrom(r, lv_min), 1),
                ZeroSlot(Prof[r][1].NBin))

\* C15: a step of thread t in the parallel region (initialization or one
\* patch) leaves the slots of all other threads as they are, and the sum
\* over the thread slots of a rank is the sum one thread obtains by running
\* all iterations in order, whatever threads ran which patches.
C15_ThreadPrivateSlots ==
  [][ \A r \in Ranks :
        /\ (pc[r] = "parallel" /\ pc'[r] = "parallel") =>
             \A t \in Threads :
               (InitializeArrays(r, t) \/ AccumulatePatch(r, t)) =>
                 \A u \in Threads \ { t } :
                   /\ \A p \in Profs : OMP_Data'[r][p][u]   = OMP_Data[r][p][u]
                   /\ \A p \in Profs : OMP_Weight'[r][p][u] = OMP_Weight[r][p][u]
                   /\ \A p \in Profs : OMP_NCell'[r][p][u]  = OMP_NCell[r][p][u]
        /\ (pc[r] = "parallel" /\ pc'[r] = "reduce") =>
             \A one \in { OneThreadSum(r) } :
               \A p \in Profs : Bins(Prof'[r][p]) = Bins(one[p]) ]_vars

\* a rank has run all its patches and every thread of the team has counted
\* cells in its slot
C15_Witness ==
  \E r \in Ranks :
    /\ pc[r] = "parallel" /\ inited[r] = Threads
    /\ lv[r] = lv_max /\ PID[r] = NPatch(r, lv[r])
    /\ \A t \in Threads : \E b \in 1..Prof[r][1].NBin : OMP_NCell[r][1][t][b] > 0

\* both faces of axis d (faces 2*d and 2*d+1) are periodic
AxisPeriodic(d) ==
  /\ env.OPT__BC_FLU[2 * d + 1] = BC_FLU_PERIODIC
  /\ env.OPT__BC_FLU[2 * d + 2] = BC_FLU_PERIODIC

\* centre of cell idx of patch P along axis d, minus the centre of the profile
RawOffset(P, d, idx) == P.EdgeL[d + 1] + (dh(P.lv) \div 2) + idx * dh(P.lv) - arg.Center[d + 1]

\* the centre of the profile lies inside the box
CenterInBox == \A d \in 0..2 : 0 <= arg.Center[d + 1] /\ arg.Center[d + 1] <= BoxSize[d + 1]

\* C16: along an axis that is not periodic the offset of a cell is its
\* centre minus the centre of the profile; along a periodic axis one box
\* length is subtracted from an offset above half the box and added to one
\* below minus half the box, which for a centre inside the box gives the
\* nearest image, of magnitude at most half the box; an axis is periodic
\* by its own boundary condition.
C16_NearestImageOffset ==
  \A n \in 1..Len(AllPatches) : \A idx \in 0..(PS1 - 1) : \A d \in 0..2 :
    \A raw \in { RawOffset(AllPatches[n], d, idx) } :
      \A off \in { Offset(arg, env, AllPatches[n], d, idx) } :
        /\ ~AxisPeriodic(d) => off = raw
        /\ AxisPeriodic(d) =>
             /\ 2 * raw > BoxSize[d + 1]  => off = raw - BoxSize[d + 1]
             /\ 2 * raw < -BoxSize[d + 1] => off = raw + BoxSize[d + 1]
             /\ (2 * raw <= BoxSize[d + 1] /\ 2 * raw >= -BoxSize[d + 1]) => off = raw
             /\ CenterInBox =>
                  /\ 2 * Abs(off) <= BoxSize[d + 1]
                  /\ \A m \in -2..2 : Abs(off) <= Abs(raw + m * BoxSize[d + 1])

\* a rank has returned from a call periodic in x only, in which a leaf cell
\* more than half a box away from the centre in x and in y was wrapped in x
\* and left as it is in y
C16_Witness ==
  /\ AxisPeriodic(0) /\ ~AxisPeriodic(1)
  /\ \E r \in Ranks : Returned(r)
  /\ \E x \in LeafCells :
       /\ 2 * RawOffset(AllPatches[x[1]], 0, CellI(x[2] - 1)) > BoxSize[1]
       /\ Offset(arg, env, AllPatches[x[1]], 0, CellI(x[2] - 1)) < 0
       /\ 2 * RawOffset(AllPatches[x[1]], 1, CellJ(x[2] - 1)) > BoxSize[2]
       /\ Offset(arg, env, AllPatches[x[1]], 1, CellJ(x[2] - 1)) > 0

\* squared radius of the leaf cell x = << patch, cell >>
R2Of(x) ==
  CellR2(arg, env, AllPatches[x[1]], CellK(x[2] - 1), CellJ(x[2] - 1), CellI(x[2] - 1))

\* the squared radius r2 lies in the shell of bin b (counted from 0)
InShell(r2, b) ==
  IF arg.LogBin
  THEN \/ b = 0 /\ QLt(QInt(r2), SQR(arg.dr_min))
       \/ /\ b >= 1
          /\ QLe(SQR(QMul(arg.dr_min, QPow(arg.LogBinRatio, b - 1))), QInt(r2))
          /\ QLt(QInt(r2), SQR(QMul(arg.dr_min, QPow(arg.LogBinRatio, b))))
  ELSE /\ QLe(SQR(QMul(arg.dr_min, QInt(b))), QInt(r2))
       /\ QLt(QInt(r2), SQR(QMul(arg.dr_min, QInt(b + 1))))

\* the cells counted in bin b of every profile are the leaf cells inside the
\* outer radius whose radius lies in the shell of b
CountedInTheirShell ==
  \A r \in Ranks :
    HoldsResult(r) =>
      \A p \in Profs : \A b \in 1..Prof[r][p].NBin :
        Prof[r][p].NCell[b] = Cardinality({ x \in CellsInRadius : InShell(R2Of(x), b - 1) })

\* every leaf cell inside the outer radius has a bin 0 <= b < NBin
NoneSkippedInRadius ==
  \A r \in Ranks :
    HoldsResult(r) =>
      \A x \in CellsInRadius : \E b \in 0..(Prof[r][1].NBin - 1) : InShell(R2Of(x), b)

\* C17: every accumulated cell is counted in a bin 0 <= b < NBin whose shell
\* contains its radius, and no cell strictly inside the outer radius is
\* skipped by the test of the bin against NBin.
C17_CellsFallInTheirShell == ValidParameters => (CountedInTheirShell /\ NoneSkippedInRadius)

\* the rank holds the sums over its threads, or what followed from them
PastThreadSum(r) == pc[r] \in { "reduce", "normalize", "bcast", "remove", "maxradius", "done" }

\* C18: from the geometry setup on all profiles of a rank have the same bin
\* count, the same array sizes and the same radius; every thread slot and,
\* after the sum over threads, every profile holds the same cell counts, so
\* that the removal, which looks at the cell counts of profile 0, removes
\* the bins that are empty in every profile and leaves the profiles in
\* lock-step.
C18_ProfilesInLockStep ==
  \A r \in Ranks : \A p \in Profs :
    Prof[r][p].Allocated =>
      /\ Prof[r][p].NBin = Prof[r][1].NBin
      /\ Len(Prof[r][p].Radius) = Len(Prof[r][1].Radius)
      /\ Len(Prof[r][p].Data) = Len(Prof[r][1].Radius)
      /\ Len(Prof[r][p].Weight) = Len(Prof[r][1].Radius)
      /\ Len(Prof[r][p].NCell) = Len(Prof[r][1].Radius)
      /\ Bins(Prof[r][p]).Radius = Bins(Prof[r][1]).Radius
      /\ pc[r] = "parallel" =>
           \A t \in inited[r] : OMP_NCell[r][p][t] = OMP_NCell[r][1][t]
      /\ PastThreadSum(r) =>
           /\ Bins(Prof[r][p]).NCell = Bins(Prof[r][1]).NCell
           /\ EmptyBins(Prof[r][p]) = EmptyBins(Prof[r][1])

\* a rank has removed empty bins from a set of several profiles and has
\* kept at least two bins
C18_Witness ==
  /\ NProf >= 2 /\ arg.RemoveEmpty
  /\ \E r \in Ranks :
       /\ pc[r] = "maxradius"
       /\ Prof[r][NProf].NBin < GeomNBin
       /\ Prof[r][NProf].NBin >= 2

\* C19: for valid parameters the bin count of a profile never exceeds the
\* size of its arrays, no rank computes with an undefined geometry, and a
\* rank that recomputes MaxRadius from Radius[NBin-1] and Radius[NBin-2]
\* has at least two bins.
C19_IndicesInRange ==
  ValidParameters =>
    \A r \in Ranks :
      /\ pc[r] # "undefined"
      /\ \A p \in Profs :
           Prof[r][p].Allocated =>
             (0 <= Prof[r][p].NBin /\ Prof[r][p].NBin <= Len(Prof[r][p].Radius))
      /\ pc[r] = "maxradius" => Prof[r][1].NBin >= 2

(***************************************************************************)
(* C20                                                                     *)
(***************************************************************************)
\* the time remaining to the program end time on the level of the call
RemainingTime == QSub(call.END_T, call.Time[call.lv])

EmptyLevel == call.NPatchTotal[call.lv] = 0

C20_EmptyLevelReturnsHuge ==
  (outcome # Pending /\ EmptyLevel) => outcome = Returns(HUGE_NUMBER, {})

C20_ReturnedStepIsPositive ==
  outcome.kind = "return" => QLt(QInt(0), outcome.value)

\* the step was replaced by a dTime_SyncFaLv above the minimum of the criteria
Stretched ==
  /\ SyncWithParent(call)
  /\ outcome.value = call.dTime_SyncFaLv
  /\ QLt(CriteriaMin(call), outcome.value)

C20_BoundUnlessStretched ==
  (outcome.kind = "return" /\ ~EmptyLevel) =>
    \/ QLe(outcome.value, RemainingTime)
    \/ /\ Stretched
       /\ QLe(outcome.value,
              QMul(QAdd(QInt(1), call.DT__FLEXIBLE_RANGE), RemainingTime))

C20_BoundForParentWithinEnd ==
  ( /\ outcome.kind = "return"
    /\ ~EmptyLevel
    /\ call.lv > 0
    /\ call.dTime_SyncFaLv = QSub(call.Time[call.lv - 1], call.Time[call.lv])
    /\ QLe(call.Time[call.lv - 1], call.END_T) ) =>
    QLe(outcome.value, RemainingTime)

C20_WitnessEmptyLevel == EmptyLevel /\ outcome = Returns(HUGE_NUMBER, {})

====
